---- MODULE Spec2Model ----
(***************************************************************************)
(* Model of bot.py: a Telegram weather bot.  The state is the in-memory    *)
(* user store DATA, its durable file users.json, the per-user search cache *)
(* LAST_SEARCH and the per-user FSM state; there is one action per         *)
(* registered handler.                                                     *)
(***************************************************************************)
EXTENDS Integers, Sequences, FiniteSets, TLC

\* ------------------------------------------------------------------ bounds
MaxEvents == 5          \* events handled in one behaviour of Spec
MaxCrashEvents == 3     \* events (crashes and restarts included) in SpecCrash
MaxStoredEvents == 3    \* events handled in one behaviour of SpecStored
MaxWant == 31           \* largest requested horizon in SpecFmt
MaxDays == 17           \* longest provider daily series in SpecFmt

\* ------------------------------------------------------- program constants
ProviderMax == 16       \* Open-Meteo forecast_days maximum
WeekDays == 7
MonthDays == 30

Users == {1, 2}         \* Telegram user ids (m.from_user.id)

None == [none |-> TRUE] \* Python None

\* ------------------------------------------------------------ conversions
Digits == <<"0", "1", "2", "3", "4", "5", "6", "7", "8", "9">>

\* str(n) for a non-negative integer
RECURSIVE Str(_)
Str(n) == IF n < 10 THEN Digits[n + 1] ELSE Str(n \div 10) \o Digits[(n % 10) + 1]

\* repr of a float with a whole value, as json.dump and an f-string write it
PyFloat(x) == Str(x) \o ".0"

\* f"{x:.5f}" of a float with a whole value
Fmt5(x) == Str(x) \o ".00000"

IsDigit(ch) == \E i \in 1..10 : Digits[i] = ch

DigitVal(ch) == (CHOOSE i \in 1..10 : Digits[i] = ch) - 1

IsDigits(s) == Len(s) > 0 /\ \A i \in 1..Len(s) : IsDigit(SubSeq(s, i, i))

RECURSIVE StrToNat(_)
StrToNat(s) ==
  IF Len(s) = 1 THEN DigitVal(s)
  ELSE 10 * StrToNat(SubSeq(s, 1, Len(s) - 1)) + DigitVal(SubSeq(s, Len(s), Len(s)))

\* m.text.strip(): the only sample text with blanks is all blanks
Strip(t) == IF t = "  " THEN "" ELSE t

\* ------------------------------------------------------------------ City
\* City.label()
label(c) ==
  c.name \o (IF c.admin1 /= "" THEN ", " \o c.admin1 ELSE "")
         \o (IF c.country /= "" THEN ", " \o c.country ELSE "")

\* one item of the geocoding response -> City (the loop body of geo_search)
item_to_city(item) ==
  [id |-> IF "id" \in DOMAIN item THEN Str(item.id)
          ELSE PyFloat(item.latitude) \o "," \o PyFloat(item.longitude),
   name |-> IF "name" \in DOMAIN item THEN item.name ELSE "",
   country |-> IF "country" \in DOMAIN item THEN item.country ELSE "",
   admin1 |-> IF "admin1" \in DOMAIN item THEN item.admin1 ELSE "",
   lat |-> item.latitude,
   lon |-> item.longitude]

\* the part of geo_search after the HTTP call: results -> List[City]
cities_of(results) == [i \in 1..Len(results) |-> item_to_city(results[i])]

\* {c.id: c for c in cities}: a later entry with the same id wins
RECURSIVE dict_by_id(_)
dict_by_id(cities) ==
  IF cities = <<>> THEN <<>>
  ELSE LET c == cities[Len(cities)]
       IN (c.id :> c) @@ dict_by_id(SubSeq(cities, 1, Len(cities) - 1))

\* city_dict built in pick_city_cb
pick_city_dict(city) ==
  [id |-> city.id, name |-> label(city), lat |-> city.lat, lon |-> city.lon]

\* city_dict built in got_location
location_city_dict(lat, lon) ==
  [id |-> Fmt5(lat) \o "," \o Fmt5(lon),
   name |-> "Point: " \o Fmt5(lat) \o ", " \o Fmt5(lon),
   lat |-> lat,
   lon |-> lon]

\* ------------------------------------------------- sample provider data
ItemA == [id |-> 7, name |-> "Berlin", country |-> "DE", admin1 |-> "BE",
          latitude |-> 52, longitude |-> 13]

ItemB == [name |-> "Bern", country |-> "CH", latitude |-> 46, longitude |-> 7]

\* what the geocoding provider may return for a query ("results")
GeoResults == {<<>>, <<ItemA>>, <<ItemB>>, <<ItemA, ItemB>>}

\* ids a pick:/favset:/favdel: button may carry
ButtonIds == {"7", "46.0,7.0", "52.00000,13.00000"}

\* device locations reported
Locations == {[latitude |-> 52, longitude |-> 13]}

\* ------------------------------------------------------ users.json (JSON)
\* The file text is the sequence of the tokens json.dump writes, white
\* space and separators left out.
Q(s) == "\"" \o s \o "\""

Key(s) == Q(s) \o ":"

IsQuoted(tok) ==
  Len(tok) >= 2 /\ SubSeq(tok, 1, 1) = "\"" /\ SubSeq(tok, Len(tok), Len(tok)) = "\""

Unquote(tok) == SubSeq(tok, 2, Len(tok) - 1)

IsKey(tok) ==
  Len(tok) >= 3 /\ SubSeq(tok, Len(tok), Len(tok)) = ":"
    /\ IsQuoted(SubSeq(tok, 1, Len(tok) - 1))

KeyName(tok) == Unquote(SubSeq(tok, 1, Len(tok) - 1))

IsFloat(tok) ==
  Len(tok) >= 3 /\ SubSeq(tok, Len(tok) - 1, Len(tok)) = ".0"
    /\ IsDigits(SubSeq(tok, 1, Len(tok) - 2))

FloatVal(tok) == StrToNat(SubSeq(tok, 1, Len(tok) - 2))

DumpCity(c) ==
  <<"{", Key("id"), Q(c.id), Key("name"), Q(c.name),
    Key("lat"), PyFloat(c.lat), Key("lon"), PyFloat(c.lon), "}">>

RECURSIVE DumpCities(_)
DumpCities(favs) ==
  IF favs = <<>> THEN <<>> ELSE DumpCity(Head(favs)) \o DumpCities(Tail(favs))

DumpUser(rec) ==
  <<"{", Key("current")>>
    \o (IF rec.current = None THEN <<"null">> ELSE DumpCity(rec.current))
    \o <<Key("favorites"), "[">> \o DumpCities(rec.favorites) \o <<"]", "}">>

\* the keys of the mapping, in the order of the user ids
RECURSIVE KeysUpTo(_, _)
KeysUpTo(data, n) ==
  IF n = 0 THEN <<>>
  ELSE KeysUpTo(data, n - 1) \o (IF Str(n) \in DOMAIN data THEN <<Str(n)>> ELSE <<>>)

RECURSIVE DumpUsers(_, _)
DumpUsers(data, keys) ==
  IF keys = <<>> THEN <<>>
  ELSE <<Key(Head(keys))>> \o DumpUser(data[Head(keys)]) \o DumpUsers(data, Tail(keys))

\* json.dump(data, f, ...)
Dump(data) == <<"{">> \o DumpUsers(data, KeysUpTo(data, Cardinality(Users))) \o <<"}">>

ParseFail == [ok |-> FALSE, pos |-> 0, val |-> <<>>]

ParseCity(t, i) ==
  IF /\ i + 9 <= Len(t)
     /\ t[i] = "{"
     /\ t[i + 1] = Key("id") /\ IsQuoted(t[i + 2])
     /\ t[i + 3] = Key("name") /\ IsQuoted(t[i + 4])
     /\ t[i + 5] = Key("lat") /\ IsFloat(t[i + 6])
     /\ t[i + 7] = Key("lon") /\ IsFloat(t[i + 8])
     /\ t[i + 9] = "}"
  THEN [ok |-> TRUE, pos |-> i + 10,
        val |-> [id |-> Unquote(t[i + 2]), name |-> Unquote(t[i + 4]),
                 lat |-> FloatVal(t[i + 6]), lon |-> FloatVal(t[i + 8])]]
  ELSE ParseFail

RECURSIVE ParseCities(_, _, _)
ParseCities(t, i, acc) ==
  IF i > Len(t) THEN ParseFail
  ELSE IF t[i] = "]" THEN [ok |-> TRUE, pos |-> i + 1, val |-> acc]
  ELSE LET c == ParseCity(t, i)
       IN IF c.ok THEN ParseCities(t, c.pos, Append(acc, c.val)) ELSE ParseFail

ParseUser(t, i) ==
  IF ~(i + 2 <= Len(t) /\ t[i] = "{" /\ t[i + 1] = Key("current")) THEN ParseFail
  ELSE LET cur == IF t[i + 2] = "null"
                  THEN [ok |-> TRUE, pos |-> i + 3, val |-> None]
                  ELSE ParseCity(t, i + 2)
       IN IF ~cur.ok THEN ParseFail
          ELSE IF ~(cur.pos + 1 <= Len(t) /\ t[cur.pos] = Key("favorites")
                      /\ t[cur.pos + 1] = "[") THEN ParseFail
          ELSE LET favs == ParseCities(t, cur.pos + 2, <<>>)
               IN IF favs.ok /\ favs.pos <= Len(t) /\ t[favs.pos] = "}"
                  THEN [ok |-> TRUE, pos |-> favs.pos + 1,
                        val |-> [current |-> cur.val, favorites |-> favs.val]]
                  ELSE ParseFail

RECURSIVE ParseUsers(_, _, _)
ParseUsers(t, i, acc) ==
  IF i > Len(t) THEN ParseFail
  ELSE IF t[i] = "}" THEN [ok |-> TRUE, pos |-> i + 1, val |-> acc]
  ELSE IF ~IsKey(t[i]) THEN ParseFail
  ELSE LET u == ParseUser(t, i + 1)
       IN IF u.ok THEN ParseUsers(t, u.pos, (KeyName(t[i]) :> u.val) @@ acc)
          ELSE ParseFail

\* json.load(f): the whole text must be one object
Parse(t) ==
  IF Len(t) >= 1 /\ t[1] = "{"
  THEN LET r == ParseUsers(t, 2, <<>>)
       IN IF r.ok /\ r.pos = Len(t) + 1 THEN r ELSE ParseFail
  ELSE ParseFail

NoFile == [exists |-> FALSE]

FileOf(text) == [exists |-> TRUE, text |-> text]

\* load_data(): ok is FALSE when json.load raises
load_data(file) ==
  IF ~file.exists THEN [ok |-> TRUE, val |-> <<>>]
  ELSE LET r == Parse(file.text) IN [ok |-> r.ok, val |-> r.val]

\* ---------------------------------------------------------------- Storage
\* A store value is the mapping DATA with the file texts written so far by
\* the handler that is running (one text per save_data call).
Store(data) == [data |-> data, writes |-> <<>>]

save_data(s) == [s EXCEPT !.writes = Append(@, Dump(s.data))]

\* get_user that forgets to flush the record it creates
get_user_unsaved(s, user_id) ==
  LET uid == Str(user_id)
  IN IF uid \notin DOMAIN s.data
     THEN [s EXCEPT !.data = (uid :> [current |-> None, favorites |-> <<>>]) @@ @]
     ELSE s

get_user(s, user_id) ==
  LET uid == Str(user_id)
  IN IF uid \notin DOMAIN s.data
     THEN save_data([s EXCEPT !.data = (uid :> [current |-> None, favorites |-> <<>>]) @@ @])
     ELSE s

\* the record get_user returns
user_of(s, user_id) == get_user(s, user_id).data[Str(user_id)]

\* set_current that forgets save_data
set_current_unsaved(s, user_id, city) ==
  LET s1 == get_user(s, user_id)
  IN [s1 EXCEPT !.data[Str(user_id)].current = city]

set_current(s, user_id, city) ==
  LET s1 == get_user(s, user_id)
  IN save_data([s1 EXCEPT !.data[Str(user_id)].current = city])

\* a membership test that compares names with the id
has_id_by_name(favs, city_id) == \E i \in 1..Len(favs) : favs[i].name = city_id

has_id(favs, city_id) == \E i \in 1..Len(favs) : favs[i].id = city_id

\* add_fav without the membership test
add_fav_always(s, user_id, city) ==
  LET s1 == get_user(s, user_id)
  IN save_data([s1 EXCEPT !.data[Str(user_id)].favorites = Append(@, city)])

add_fav(s, user_id, city) ==
  LET s1 == get_user(s, user_id)
      favs == s1.data[Str(user_id)].favorites
  IN IF ~has_id(favs, city.id)
     THEN save_data([s1 EXCEPT !.data[Str(user_id)].favorites = Append(@, city)])
     ELSE s1

\* a removal that also clears current when current has the removed id
remove_fav_and_current(s, user_id, city_id) ==
  LET s1 == get_user(s, user_id)
      keep(c) == c.id /= city_id
      rec == s1.data[Str(user_id)]
      cur == IF rec.current /= None /\ rec.current.id = city_id
             THEN None ELSE rec.current
  IN save_data([s1 EXCEPT !.data[Str(user_id)] =
                  [current |-> cur, favorites |-> SelectSeq(rec.favorites, keep)]])

remove_fav(s, user_id, city_id) ==
  LET s1 == get_user(s, user_id)
      keep(c) == c.id /= city_id
  IN save_data([s1 EXCEPT !.data[Str(user_id)].favorites = SelectSeq(@, keep)])

\* ------------------------------------------------------------- Forecast
Min(a, b) == IF a < b THEN a ELSE b

Max(a, b) == IF a > b THEN a ELSE b

\* the forecast_days parameter forecast_daily sends upstream
forecast_days(days) == Max(1, Min(days, ProviderMax))

\* a provider response carrying n days: parallel arrays aligned by index
daily_response(n) ==
  [daily |-> [time |-> [i \in 1..n |-> i],
              temperature_2m_min |-> [i \in 1..n |-> 1],
              temperature_2m_max |-> [i \in 1..n |-> 9],
              precipitation_sum |-> [i \in 1..n |-> 0],
              wind_speed_10m_max |-> [i \in 1..n |-> 3],
              weathercode |-> [i \in 1..n |-> i % 4]]]

\* format_daily whose warning test is >= instead of >
format_daily_ge(city_label, daily, want_days, real_days) ==
  LET d == daily.daily
      days == Min(real_days, Len(d.time))
  IN <<[kind |-> "label", label |-> city_label]>>
       \o (IF want_days >= real_days
           THEN <<[kind |-> "warning", days |-> real_days]>> ELSE <<>>)
       \o <<[kind |-> "blank"]>>
       \o [i \in 1..days |->
             [kind |-> "day", date |-> d.time[i],
              tmin |-> d.temperature_2m_min[i], tmax |-> d.temperature_2m_max[i],
              pr |-> d.precipitation_sum[i], wind |-> d.wind_speed_10m_max[i]]]

\* format_daily: the lines joined by "\n"; list index i of the code is i + 1
format_daily(city_label, daily, want_days, real_days) ==
  LET d == daily.daily
      days == Min(real_days, Len(d.time))
  IN <<[kind |-> "label", label |-> city_label]>>
       \o (IF want_days > real_days
           THEN <<[kind |-> "warning", days |-> real_days]>> ELSE <<>>)
       \o <<[kind |-> "blank"]>>
       \o [i \in 1..days |->
             [kind |-> "day", date |-> d.time[i],
              tmin |-> d.temperature_2m_min[i], tmax |-> d.temperature_2m_max[i],
              pr |-> d.precipitation_sum[i], wind |-> d.wind_speed_10m_max[i]]]

\* the icon loop of send_weather from index i on: the icons of the messages
\* sent, and whether data["daily"]["weathercode"][i] raised IndexError
RECURSIVE icon_loop(_, _, _, _)
icon_loop(codes, i, real_days, sent) ==
  IF i >= real_days THEN [raised |-> FALSE, sent |-> sent]
  ELSE IF i + 1 \notin DOMAIN codes THEN [raised |-> TRUE, sent |-> sent]
  ELSE icon_loop(codes, i + 1, real_days, Append(sent, codes[i + 1]))

\* ---------------------------------------------------------------- state
VARIABLES
  DATA,          \* DATA: str(user id) -> [current, favorites]
  FILE,          \* users.json: NoFile or FileOf(token sequence)
  LAST_SEARCH,   \* LAST_SEARCH: user id -> (city id -> City)
  state,         \* FSM state of each user: "none" or "waiting_city_name"
  proc,          \* "running", "crashed" or "fatal" (load_data raised)
  searchLog,     \* for each user, what each geo_search call returned
  last,          \* the event handled last and its response
  fuel,          \* events left to handle
  fmt,           \* a send_weather call on an arbitrary horizon (SpecFmt)
  aio           \* the event loop: handler coroutines in flight (SpecConc)

vars == <<DATA, FILE, LAST_SEARCH, state, proc, searchLog, last, fuel, fmt, aio>>

\* ---------------------------------------------------------------- inputs
\* button texts of main_kb (the Russian captions, transliterated)
BtnChoose == "Vybrat gorod"

BtnFavs == "Izbrannye goroda"

BtnWeek == "Pogoda na nedelyu"

BtnMonth == "Pogoda na mesyac"

BtnLocation == "Otpravit geolokaciyu"

Texts == {"/start", "/help", BtnChoose, BtnFavs, BtnWeek, BtnMonth, BtnLocation,
          "Berlin", "  "}

Messages == {[text |-> t] : t \in Texts} \cup {[location |-> l] : l \in Locations}

\* outcomes of the HTTP call of geo_search
GeoResponses ==
  {[raised |-> TRUE, results |-> <<>>]}
    \cup {[raised |-> FALSE, results |-> g] : g \in GeoResults}

\* lengths of the daily series the forecast provider returns in Spec
DaySamples == {3, WeekDays, ProviderMax}

\* outcomes of the HTTP call of forecast_daily
ForecastResponses ==
  {[raised |-> TRUE, days |-> 0]} \cup {[raised |-> FALSE, days |-> n] : n \in DaySamples}

HasText(m) == "text" \in DOMAIN m

\* m.text or ""
TextOf(m) == IF HasText(m) THEN m.text ELSE ""

\* the message handler the dispatcher runs: the first registered handler
\* whose filter accepts the message
\* a dispatch that tries the state-filtered handler after the button handlers
Route_state_last(u, m) ==
  IF HasText(m) /\ m.text = "/start" THEN "cmd_start"
  ELSE IF HasText(m) /\ m.text = "/help" THEN "cmd_help"
  ELSE IF HasText(m) /\ m.text = BtnChoose THEN "choose_city"
  ELSE IF HasText(m) /\ m.text = BtnFavs THEN "favs"
  ELSE IF "location" \in DOMAIN m THEN "got_location"
  ELSE IF HasText(m) /\ m.text = BtnWeek THEN "week"
  ELSE IF HasText(m) /\ m.text = BtnMonth THEN "month"
  ELSE IF HasText(m) /\ m.text = BtnLocation THEN "ask_location"
  ELSE IF state[u] = "waiting_city_name" THEN "city_name_received"
  ELSE "unhandled"

Route(u, m) ==
  IF HasText(m) /\ m.text = "/start" THEN "cmd_start"
  ELSE IF HasText(m) /\ m.text = "/help" THEN "cmd_help"
  ELSE IF HasText(m) /\ m.text = BtnChoose THEN "choose_city"
  ELSE IF state[u] = "waiting_city_name" THEN "city_name_received"
  ELSE IF HasText(m) /\ m.text = BtnFavs THEN "favs"
  ELSE IF "location" \in DOMAIN m THEN "got_location"
  ELSE IF HasText(m) /\ m.text = BtnWeek THEN "week"
  ELSE IF HasText(m) /\ m.text = BtnMonth THEN "month"
  ELSE IF HasText(m) /\ m.text = BtnLocation THEN "ask_location"
  ELSE "unhandled"

\* LAST_SEARCH.get(user_id) or {}
cache_of(u) == IF u \in DOMAIN LAST_SEARCH THEN LAST_SEARCH[u] ELSE <<>>

\* no coroutine in flight, nobody running, users.json not open
NoTasks == [tasks |-> <<>>, running |-> 0, writers |-> {}]

\* ------------------------------------------------------------------ Init
\* the process has started on the file: DATA = load_data(), nothing cached
Started(file) ==
  /\ FILE = file
  /\ DATA = load_data(file).val
  /\ LAST_SEARCH = <<>>
  /\ state = [u \in Users |-> "none"]
  /\ proc = "running"
  /\ searchLog = [u \in Users |-> <<>>]
  /\ last = [h |-> "init"]
  /\ aio = NoTasks

\* a first start: there is no users.json
Init == Started(NoFile) /\ fuel = MaxEvents /\ fmt = [stage |-> "idle"]

\* ------------------------------------------------------------- handlers
\* a handler may run: the process is up and the budget is not used up
CanHandle == proc = "running" /\ fuel > 0

\* DATA and users.json after the store calls of a handler
Commit(s) ==
  /\ DATA' = s.data
  /\ FILE' = IF s.writes = <<>> THEN FILE ELSE FileOf(s.writes[Len(s.writes)])

Done(ev) == last' = ev /\ fuel' = fuel - 1 /\ UNCHANGED <<proc, fmt, aio>>

cmd_start_store(u) == get_user(Store(DATA), u)

cmd_start(u, m) ==
  /\ CanHandle /\ Route(u, m) = "cmd_start"
  /\ Commit(cmd_start_store(u))
  /\ Done([h |-> "cmd_start", user |-> u, resp |-> "menu"])
  /\ UNCHANGED <<LAST_SEARCH, state, searchLog>>

cmd_help(u, m) ==
  /\ CanHandle /\ Route(u, m) = "cmd_help"
  /\ Done([h |-> "cmd_help", user |-> u, resp |-> "help"])
  /\ UNCHANGED <<DATA, FILE, LAST_SEARCH, state, searchLog>>

choose_city(u, m) ==
  /\ CanHandle /\ Route(u, m) = "choose_city"
  /\ state' = [state EXCEPT ![u] = "waiting_city_name"]
  /\ Done([h |-> "choose_city", user |-> u, resp |-> "ask_name"])
  /\ UNCHANGED <<DATA, FILE, LAST_SEARCH, searchLog>>

\* how city_name_received ends: "usage" (empty name, no search), "raised"
\* (geo_search raised, nothing is answered), "not_found" or "choose"
search_reply(name, r) ==
  IF name = "" THEN "usage"
  ELSE IF r.raised THEN "raised"
  ELSE IF cities_of(r.results) = <<>> THEN "not_found"
  ELSE "choose"

\* a put into one mapping shared by all users
put_search_global(u, cities) == [v \in Users |-> dict_by_id(cities)]

\* a put that adds the new candidates to the user's old mapping
put_search_merge(u, cities) == (u :> (dict_by_id(cities) @@ cache_of(u))) @@ LAST_SEARCH

\* LAST_SEARCH[m.from_user.id] = {c.id: c for c in cities}
put_search(u, cities) == (u :> dict_by_id(cities)) @@ LAST_SEARCH

\* city_name_received that clears the FSM state before the search
city_name_received_exit(u, m, r) ==
  /\ CanHandle /\ Route(u, m) = "city_name_received"
  /\ LET name == Strip(TextOf(m))
         resp == search_reply(name, r)
     IN /\ searchLog' = IF name = "" THEN searchLog
                         ELSE [searchLog EXCEPT ![u] = Append(@, r)]
        /\ LAST_SEARCH' = IF resp = "choose"
                           THEN put_search(u, cities_of(r.results)) ELSE LAST_SEARCH
        /\ state' = IF name /= "" THEN [state EXCEPT ![u] = "none"] ELSE state
        /\ Done([h |-> "city_name_received", user |-> u, arg |-> m, resp |-> resp])
  /\ UNCHANGED <<DATA, FILE>>

\* city_name_received that assigns LAST_SEARCH before it tests the result
city_name_received_put(u, m, r) ==
  /\ CanHandle /\ Route(u, m) = "city_name_received"
  /\ LET name == Strip(TextOf(m))
         resp == search_reply(name, r)
     IN /\ searchLog' = IF name = "" THEN searchLog
                         ELSE [searchLog EXCEPT ![u] = Append(@, r)]
        /\ LAST_SEARCH' = IF resp \in {"choose", "not_found"}
                           THEN put_search(u, cities_of(r.results)) ELSE LAST_SEARCH
        /\ state' = IF resp = "choose" THEN [state EXCEPT ![u] = "none"] ELSE state
        /\ Done([h |-> "city_name_received", user |-> u, arg |-> m, resp |-> resp])
  /\ UNCHANGED <<DATA, FILE>>

city_name_received(u, m, r) ==
  /\ CanHandle /\ Route(u, m) = "city_name_received"
  /\ LET name == Strip(TextOf(m))
         resp == search_reply(name, r)
     IN /\ searchLog' = IF name = "" THEN searchLog
                         ELSE [searchLog EXCEPT ![u] = Append(@, r)]
        /\ LAST_SEARCH' = IF resp = "choose"
                           THEN put_search(u, cities_of(r.results)) ELSE LAST_SEARCH
        /\ state' = IF resp = "choose" THEN [state EXCEPT ![u] = "none"] ELSE state
        /\ Done([h |-> "city_name_received", user |-> u, arg |-> m, resp |-> resp])
  /\ UNCHANGED <<DATA, FILE>>

\* pick_city_cb that calls get_user before it looks the candidate up
pick_city_store_eager(u, cid) ==
  IF cid \notin DOMAIN cache_of(u) THEN get_user(Store(DATA), u)
  ELSE get_user(set_current(Store(DATA), u, pick_city_dict(cache_of(u)[cid])), u)

pick_city_store(u, cid) ==
  IF cid \notin DOMAIN cache_of(u) THEN Store(DATA)
  ELSE get_user(set_current(Store(DATA), u, pick_city_dict(cache_of(u)[cid])), u)

pick_city_cb(u, cid) ==
  /\ CanHandle
  /\ LET s == pick_city_store(u, cid)
     IN /\ Commit(s)
        /\ IF cid \notin DOMAIN cache_of(u)
           THEN Done([h |-> "pick_city_cb", user |-> u, arg |-> cid,
                      resp |-> "stale", is_fav |-> FALSE])
           ELSE Done([h |-> "pick_city_cb", user |-> u, arg |-> cid,
                      resp |-> "picked",
                      is_fav |-> has_id(user_of(s, u).favorites,
                                        pick_city_dict(cache_of(u)[cid]).id)])
  /\ UNCHANGED <<LAST_SEARCH, state, searchLog>>

add_fav_store(u) ==
  LET s0 == get_user(Store(DATA), u)
      cur == s0.data[Str(u)].current
  IN IF cur = None THEN s0 ELSE add_fav(s0, u, cur)

add_fav_cb(u) ==
  /\ CanHandle
  /\ Commit(add_fav_store(u))
  /\ LET rec == user_of(Store(DATA), u)
     IN Done([h |-> "add_fav_cb", user |-> u,
              resp |-> IF rec.current = None THEN "need_city" ELSE "added",
              was_fav |-> rec.current /= None
                            /\ has_id(rec.favorites, rec.current.id)])
  /\ UNCHANGED <<LAST_SEARCH, state, searchLog>>

favs_store(u) == get_user(Store(DATA), u)

\* the callback ids of the rows of fav_inline_kb
fav_inline_kb(favorites) == [i \in 1..Len(favorites) |-> favorites[i].id]

favs(u, m) ==
  /\ CanHandle /\ Route(u, m) = "favs"
  /\ Commit(favs_store(u))
  /\ Done([h |-> "favs", user |-> u, resp |-> "favorites",
           kb |-> fav_inline_kb(user_of(Store(DATA), u).favorites)])
  /\ UNCHANGED <<LAST_SEARCH, state, searchLog>>

\* next((c for c in favorites if c["id"] == cid), None)
\* a lookup that falls back to the first favorite
first_with_id_or_head(favorites, cid) ==
  IF has_id(favorites, cid)
  THEN favorites[CHOOSE i \in 1..Len(favorites) :
                   /\ favorites[i].id = cid
                   /\ \A j \in 1..(i - 1) : favorites[j].id /= cid]
  ELSE IF favorites /= <<>> THEN favorites[1] ELSE None

first_with_id(favorites, cid) ==
  IF has_id(favorites, cid)
  THEN favorites[CHOOSE i \in 1..Len(favorites) :
                   /\ favorites[i].id = cid
                   /\ \A j \in 1..(i - 1) : favorites[j].id /= cid]
  ELSE None

fav_set_store(u, cid) ==
  LET s0 == get_user(Store(DATA), u)
      city == first_with_id(s0.data[Str(u)].favorites, cid)
  IN IF city = None THEN s0 ELSE set_current(s0, u, city)

fav_set(u, cid) ==
  /\ CanHandle
  /\ Commit(fav_set_store(u, cid))
  /\ Done([h |-> "fav_set", user |-> u, arg |-> cid,
           resp |-> IF first_with_id(user_of(Store(DATA), u).favorites, cid) = None
                    THEN "not_found" ELSE "current_set"])
  /\ UNCHANGED <<LAST_SEARCH, state, searchLog>>

fav_del_store(u, cid) == get_user(remove_fav(Store(DATA), u, cid), u)

fav_del(u, cid) ==
  /\ CanHandle
  /\ Commit(fav_del_store(u, cid))
  /\ Done([h |-> "fav_del", user |-> u, arg |-> cid, resp |-> "deleted",
           had |-> has_id(user_of(Store(DATA), u).favorites, cid)])
  /\ UNCHANGED <<LAST_SEARCH, state, searchLog>>

noop(u) ==
  /\ CanHandle
  /\ Done([h |-> "noop", user |-> u, resp |-> "empty"])
  /\ UNCHANGED <<DATA, FILE, LAST_SEARCH, state, searchLog>>

got_location_store(u, m) ==
  set_current(Store(DATA), u,
              location_city_dict(m.location.latitude, m.location.longitude))

got_location(u, m) ==
  /\ CanHandle /\ Route(u, m) = "got_location"
  /\ Commit(got_location_store(u, m))
  /\ Done([h |-> "got_location", user |-> u, arg |-> m, resp |-> "location_saved"])
  /\ UNCHANGED <<LAST_SEARCH, state, searchLog>>

send_weather_store(u) == get_user(Store(DATA), u)

\* what send_weather does once forecast_daily has returned the series f:
\* the text, the icons of the messages sent, and whether the loop raised
weather_messages(cur_name, f, want_days) ==
  LET data == daily_response(f.days)
      real_days == Min(want_days, ProviderMax)
      text == format_daily(cur_name, data, want_days, real_days)
      loop == icon_loop(data.daily.weathercode, 0, real_days, <<>>)
  IN [text |-> text, sent |-> loop.sent, raised |-> loop.raised]

send_weather(u, want_days, f) ==
  /\ Commit(send_weather_store(u))
  /\ LET cur == user_of(Store(DATA), u).current
         ev(resp, asked, text, sent) ==
           [h |-> "send_weather", user |-> u, want |-> want_days, resp |-> resp,
            asked |-> asked, days |-> f.days, text |-> text, sent |-> sent]
     IN IF cur = None THEN Done(ev("need_city", 0, <<>>, <<>>))
        ELSE IF f.raised
        THEN Done(ev("raised", forecast_days(want_days), <<>>, <<>>))
        ELSE LET out == weather_messages(cur.name, f, want_days)
             IN Done(ev(IF out.raised THEN "index_error" ELSE "forecast",
                        forecast_days(want_days), out.text, out.sent))
  /\ UNCHANGED <<LAST_SEARCH, state, searchLog>>

week(u, m, f) ==
  /\ CanHandle /\ Route(u, m) = "week"
  /\ send_weather(u, WeekDays, f)

month(u, m, f) ==
  /\ CanHandle /\ Route(u, m) = "month"
  /\ send_weather(u, MonthDays, f)

ask_location(u, m) ==
  /\ CanHandle /\ Route(u, m) = "ask_location"
  /\ Done([h |-> "ask_location", user |-> u, resp |-> "press_button"])
  /\ UNCHANGED <<DATA, FILE, LAST_SEARCH, state, searchLog>>

\* a message no handler accepts is dropped by the dispatcher
unhandled(u, m) ==
  /\ CanHandle /\ Route(u, m) = "unhandled"
  /\ Done([h |-> "unhandled", user |-> u, arg |-> m, resp |-> "nothing"])
  /\ UNCHANGED <<DATA, FILE, LAST_SEARCH, state, searchLog>>

Next ==
  \E u \in Users :
    \/ \E m \in Messages : cmd_start(u, m)
    \/ \E m \in Messages : cmd_help(u, m)
    \/ \E m \in Messages : choose_city(u, m)
    \/ \E m \in Messages, r \in GeoResponses : city_name_received(u, m, r)
    \/ \E cid \in ButtonIds : pick_city_cb(u, cid)
    \/ add_fav_cb(u)
    \/ \E m \in Messages : favs(u, m)
    \/ \E cid \in ButtonIds : fav_set(u, cid)
    \/ \E cid \in ButtonIds : fav_del(u, cid)
    \/ noop(u)
    \/ \E m \in Messages : got_location(u, m)
    \/ \E m \in Messages, f \in ForecastResponses : week(u, m, f)
    \/ \E m \in Messages, f \in ForecastResponses : month(u, m, f)
    \/ \E m \in Messages : ask_location(u, m)
    \/ \E m \in Messages : unhandled(u, m)

Spec == Init /\ [][Next]_vars

\* -------------------------------------------------- send_weather alone
\* send_weather from the return of forecast_daily on, for any horizon and
\* any length of the daily series
InitFmt ==
  /\ Started(NoFile) /\ fuel = 0
  /\ fmt \in {[stage |-> "call", want |-> w, days |-> n] :
                w \in 1..MaxWant, n \in 0..MaxDays}

fmt_send_weather ==
  /\ fmt.stage = "call"
  /\ LET out == weather_messages("Berlin, BE, DE",
                                 [raised |-> FALSE, days |-> fmt.days], fmt.want)
     IN fmt' = [stage |-> "done", want |-> fmt.want, days |-> fmt.days,
                text |-> out.text, sent |-> out.sent, raised |-> out.raised]
  /\ UNCHANGED <<DATA, FILE, LAST_SEARCH, state, proc, searchLog, last, fuel, aio>>

NextFmt == fmt_send_weather

SpecFmt == InitFmt /\ [][NextFmt]_vars

\* ------------------------------------------------- a stored users.json
\* a users.json an earlier run of the bot has written
StoredData ==
  ("1" :> [current |-> pick_city_dict(item_to_city(ItemA)),
           favorites |-> <<location_city_dict(52, 13)>>])

InitStored ==
  /\ \E file \in {NoFile, FileOf(Dump(StoredData))} : Started(file)
  /\ fuel = MaxStoredEvents
  /\ fmt = [stage |-> "idle"]

SpecStored == InitStored /\ [][Next]_vars

\* ------------------------------------------------------ crash, restart
\* the store calls of every handler that may run now
PendingStores ==
  UNION {
    {cmd_start_store(u), add_fav_store(u), send_weather_store(u)}
      \cup {pick_city_store(u, cid) : cid \in ButtonIds}
      \cup {fav_set_store(u, cid) : cid \in ButtonIds}
      \cup {fav_del_store(u, cid) : cid \in ButtonIds}
      \cup {favs_store(u) : m \in {x \in Messages : Route(u, x) = "favs"}}
      \cup {got_location_store(u, m) :
              m \in {x \in Messages : Route(u, x) = "got_location"}}
    : u \in Users}

\* the process is killed: memory, LAST_SEARCH and the FSM storage are lost
killed(file) ==
  /\ CanHandle
  /\ FILE' = file
  /\ proc' = "crashed"
  /\ DATA' = <<>>
  /\ LAST_SEARCH' = <<>>
  /\ state' = [u \in Users |-> "none"]
  /\ last' = [h |-> "crash"]
  /\ fuel' = fuel - 1
  /\ UNCHANGED <<searchLog, fmt, aio>>

\* killed inside save_data: open(DATA_FILE, "w") has emptied the file and
\* json.dump has written the first k tokens
crash_in_save ==
  \E s \in PendingStores : \E i \in 1..Len(s.writes) :
    \E k \in 0..(Len(s.writes[i]) - 1) :
      killed(FileOf(SubSeq(s.writes[i], 1, k)))

\* killed outside save_data
crash_idle == killed(FILE)

\* the next start: DATA = load_data(); json.load raising ends the start
restart ==
  /\ proc = "crashed" /\ fuel > 0
  /\ LET r == load_data(FILE)
     IN IF r.ok THEN proc' = "running" /\ DATA' = r.val
        ELSE proc' = "fatal" /\ DATA' = DATA
  /\ last' = [h |-> "restart"]
  /\ fuel' = fuel - 1
  /\ UNCHANGED <<FILE, LAST_SEARCH, state, searchLog, fmt, aio>>

InitCrash == Started(NoFile) /\ fuel = MaxCrashEvents /\ fmt = [stage |-> "idle"]

NextCrash == Next \/ crash_in_save \/ crash_idle \/ restart

SpecCrash == InitCrash /\ [][NextCrash]_vars

\* ------------------------------------------------ handlers as coroutines
\* Each update is handled by a coroutine of its own. A coroutine runs until
\* its next await; only there may another one run. save_data is expanded
\* into the open, the dump and the close of users.json.
MaxTasks == 2           \* coroutines started in one behaviour of SpecConc

Op(name, arg) == [op |-> name, arg |-> arg]

Await == Op("await", None)

\* save_data with an await between the open and the dump
save_ops_async == <<Op("open", None), Await, Op("dump", None), Op("close", None)>>

\* save_data: with open(DATA_FILE, "w") as f: json.dump(DATA, f)
save_ops == <<Op("open", None), Op("dump", None), Op("close", None)>>

\* get_user saves only when it creates the record: see store_step
get_user_ops == <<Op("get_user", None)>>

set_current_ops(city) == get_user_ops \o <<Op("assign_current", city)>> \o save_ops

\* add_fav saves only when it appends: see store_step
add_fav_ops(city) == get_user_ops \o <<Op("append_fav", city)>>

remove_fav_ops(city_id) == get_user_ops \o <<Op("filter_favs", city_id)>> \o save_ops

\* the statements of a handler up to its first branch on the store
program(h, arg) ==
  CASE h = "cmd_start" -> get_user_ops \o <<Await>>
    [] h = "got_location" ->
         set_current_ops(location_city_dict(arg.latitude, arg.longitude)) \o <<Await>>
    [] h = "add_fav_cb" -> get_user_ops \o <<Op("read_current", None)>>
    [] h = "fav_set" -> get_user_ops \o <<Op("find_favorite", arg)>>
    [] h = "fav_del" -> remove_fav_ops(arg) \o get_user_ops \o <<Await, Await>>

\* the ids a favset: or favdel: button can carry here
ConcIds == {location_city_dict(l.latitude, l.longitude).id : l \in Locations}

\* the dispatcher starts a coroutine for an update
dispatch(u, h, arg) ==
  /\ proc = "running" /\ aio.running = 0
  /\ Len(aio.tasks) < MaxTasks
  /\ aio' = [aio EXCEPT !.tasks =
                Append(@, [user |-> u, h |-> h, ops |-> program(h, arg)])]
  /\ UNCHANGED <<DATA, FILE, LAST_SEARCH, state, proc, searchLog, last, fuel, fmt>>

\* the loop runs a coroutine that is new or whose await has completed
resume(t) ==
  /\ aio.running = 0
  /\ aio.tasks[t].ops /= <<>>
  /\ aio' = [aio EXCEPT !.running = t]
  /\ UNCHANGED <<DATA, FILE, LAST_SEARCH, state, proc, searchLog, last, fuel, fmt>>

\* the running coroutine goes on with ops; it ends when none is left
Continue(ops, writers) ==
  aio' = [running |-> IF ops = <<>> THEN 0 ELSE aio.running,
           tasks |-> [aio.tasks EXCEPT ![aio.running].ops = ops],
           writers |-> writers]

StoreOps ==
  {"get_user", "assign_current", "append_fav", "filter_favs", "read_current",
   "find_favorite"}

\* one statement of the running coroutine on DATA
store_step ==
  /\ aio.running /= 0
  /\ LET task == aio.tasks[aio.running]
         op == Head(task.ops)
         rest == Tail(task.ops)
         uid == Str(task.user)
     IN /\ op.op \in StoreOps
        /\ CASE op.op = "get_user" ->
                  IF uid \in DOMAIN DATA
                  THEN DATA' = DATA /\ Continue(rest, aio.writers)
                  ELSE /\ DATA' = DATA @@ (uid :> [current |-> None, favorites |-> <<>>])
                       /\ Continue(save_ops \o rest, aio.writers)
             [] op.op = "assign_current" ->
                  /\ DATA' = [DATA EXCEPT ![uid].current = op.arg]
                  /\ Continue(rest, aio.writers)
             [] op.op = "append_fav" ->
                  IF has_id(DATA[uid].favorites, op.arg.id)
                  THEN DATA' = DATA /\ Continue(rest, aio.writers)
                  ELSE /\ DATA' = [DATA EXCEPT ![uid].favorites = Append(@, op.arg)]
                       /\ Continue(save_ops \o rest, aio.writers)
             [] op.op = "filter_favs" ->
                  /\ DATA' = [DATA EXCEPT ![uid].favorites =
                                SelectSeq(@, LAMBDA c : c.id /= op.arg)]
                  /\ Continue(rest, aio.writers)
             [] op.op = "read_current" ->
                  /\ DATA' = DATA
                  /\ LET cur == DATA[uid].current
                     IN IF cur = None THEN Continue(<<Await>>, aio.writers)
                        ELSE Continue(add_fav_ops(cur) \o <<Await, Await>>, aio.writers)
             [] op.op = "find_favorite" ->
                  /\ DATA' = DATA
                  /\ LET city == first_with_id(DATA[uid].favorites, op.arg)
                     IN IF city = None THEN Continue(<<Await>>, aio.writers)
                        ELSE Continue(set_current_ops(city) \o <<Await, Await>>,
                                      aio.writers)
  /\ UNCHANGED <<FILE, LAST_SEARCH, state, proc, searchLog, last, fuel, fmt>>

\* one step of save_data in the running coroutine
save_step ==
  /\ aio.running /= 0
  /\ LET task == aio.tasks[aio.running]
         op == Head(task.ops)
         rest == Tail(task.ops)
     IN /\ op.op \in {"open", "dump", "close"}
        /\ CASE op.op = "open" ->
                  /\ FILE' = FileOf(<<>>)
                  /\ Continue(rest, aio.writers \cup {aio.running})
             [] op.op = "dump" ->
                  /\ FILE' = FileOf(Dump(DATA))
                  /\ Continue(rest, aio.writers)
             [] op.op = "close" ->
                  /\ FILE' = FILE
                  /\ Continue(rest, aio.writers \ {aio.running})
  /\ UNCHANGED <<DATA, LAST_SEARCH, state, proc, searchLog, last, fuel, fmt>>

\* the running coroutine reaches an await and gives the loop back
yield_step ==
  /\ aio.running /= 0
  /\ LET task == aio.tasks[aio.running]
     IN /\ Head(task.ops).op = "await"
        /\ aio' = [aio EXCEPT !.running = 0,
                                !.tasks[aio.running].ops = Tail(task.ops)]
  /\ UNCHANGED <<DATA, FILE, LAST_SEARCH, state, proc, searchLog, last, fuel, fmt>>

InitConc == Started(NoFile) /\ fuel = 0 /\ fmt = [stage |-> "idle"]

NextConc ==
  \/ \E u \in Users :
       \/ dispatch(u, "cmd_start", None)
       \/ \E l \in Locations : dispatch(u, "got_location", l)
       \/ dispatch(u, "add_fav_cb", None)
       \/ \E cid \in ConcIds : dispatch(u, "fav_set", cid)
       \/ \E cid \in ConcIds : dispatch(u, "fav_del", cid)
  \/ \E t \in 1..Len(aio.tasks) : resume(t)
  \/ store_step
  \/ save_step
  \/ yield_step

SpecConc == InitConc /\ [][NextConc]_vars

\* ================================================================ claims
\* the step is the handler h handling an event of user u
Handled(h, u) == fuel' = fuel - 1 /\ last'.h = h /\ last'.user = u

DefaultRecord == [current |-> None, favorites |-> <<>>]

\* u has no current location (a user never seen has no record at all)
NoCurrent(u) == Str(u) \notin DOMAIN DATA \/ DATA[Str(u)].current = None

\* the candidates the i-th search of u returned
found(u, i) == cities_of(searchLog[u][i].results)

ids_of(cities) == {cities[k].id : k \in 1..Len(cities)}

\* the candidates of the most recent search of u that returned any
latest_found(u) ==
  LET ok == {i \in 1..Len(searchLog[u]) : found(u, i) /= <<>>}
  IN IF ok = {} THEN <<>>
     ELSE found(u, CHOOSE i \in ok : \A j \in ok : j <= i)

\* the pick event carries an id that a search before the user's last one returned
PickOfEarlierSearch ==
  /\ last.h = "pick_city_cb"
  /\ \E i \in 1..(Len(searchLog[last.user]) - 1) : last.arg \in ids_of(found(last.user, i))

\* C1 (as stated): once a user has searched again, a pick carrying an id of
\* an earlier search is answered 'list is stale', whatever the later search
\* returned.
C1_StaleAfterSecondSearch == PickOfEarlierSearch => last.resp = "stale"

\* C1 (amended): a pick resolves against the candidates of the user's most
\* recent search that returned any: an id outside them is answered 'list is
\* stale' and leaves the store unchanged, an id among them sets current to
\* that search's candidate.
C1_StaleUnlessInLatestFound ==
  [][\A u \in Users :
       Handled("pick_city_cb", u) =>
         IF last'.arg \in ids_of(latest_found(u))
         THEN /\ last'.resp = "picked"
              /\ \E k \in 1..Len(latest_found(u)) :
                   /\ latest_found(u)[k].id = last'.arg
                   /\ DATA'[Str(u)].current = pick_city_dict(latest_found(u)[k])
         ELSE last'.resp = "stale" /\ DATA' = DATA]_vars

C1_Witness ==
  /\ PickOfEarlierSearch
  /\ Len(searchLog[last.user]) = 2
  /\ found(last.user, 2) /= <<>>
  /\ last.arg \notin ids_of(found(last.user, 2))
  /\ last.resp = "stale"

\* C2: no user's favorites hold two entries with the same identifier.
C2_FavoritesUnique ==
  \A uid \in DOMAIN DATA :
    \A i, j \in 1..Len(DATA[uid].favorites) :
      i /= j => DATA[uid].favorites[i].id /= DATA[uid].favorites[j].id

C2_Witness ==
  /\ last.h = "add_fav_cb" /\ last.was_fav
  /\ DATA[Str(last.user)].current = location_city_dict(52, 13)
  /\ Len(DATA[Str(last.user)].favorites) = 1

\* C3: add-favorite for a current location whose id is already among the
\* favorites leaves the favorites (and the whole store) as they were.
C3_AddFavIdempotent ==
  [][\A u \in Users :
       (/\ Handled("add_fav_cb", u)
        /\ ~NoCurrent(u)
        /\ has_id(DATA[Str(u)].favorites, DATA[Str(u)].current.id))
       => /\ DATA'[Str(u)].favorites = DATA[Str(u)].favorites
          /\ DATA' = DATA
          /\ FILE' = FILE]_vars

C3_Witness ==
  /\ last.h = "add_fav_cb" /\ last.was_fav /\ last.resp = "added"
  /\ DATA[Str(last.user)].current = pick_city_dict(item_to_city(ItemA))
  /\ DATA[Str(last.user)].favorites = <<pick_city_dict(item_to_city(ItemA))>>

\* C4 (as stated): every submitted search, failed ones included, takes the
\* user out of AwaitingCityName.
C4_ExitOnAnySearch ==
  (last.h = "city_name_received" /\ last.resp \in {"choose", "not_found", "raised"})
    => state[last.user] /= "waiting_city_name"

\* C4 (amended): a user leaves AwaitingCityName exactly when a search
\* returns at least one candidate; after zero results or an upstream
\* failure the user is still in AwaitingCityName.
C4_ExitOnlyOnCandidates ==
  [][\A u \in Users :
       (state[u] = "waiting_city_name" /\ state'[u] /= "waiting_city_name")
         <=> (Handled("city_name_received", u) /\ last'.resp = "choose")]_vars

C4_Witness ==
  /\ last.h = "city_name_received" /\ last.resp = "not_found"
  /\ state[last.user] = "waiting_city_name"
  /\ Route(last.user, [text |-> "Berlin"]) = "city_name_received"

\* C5: a pick whose id is not in the user's search-cache mapping changes
\* neither the store, the file, the cache nor the FSM state, and is
\* answered 'list is stale'.
C5_StalePickChangesNothing ==
  [][\A u \in Users :
       (Handled("pick_city_cb", u) /\ last'.arg \notin DOMAIN cache_of(u))
       => /\ UNCHANGED <<DATA, FILE, LAST_SEARCH, state>>
          /\ last'.resp = "stale"]_vars

C5_Witness ==
  /\ last.h = "pick_city_cb" /\ last.resp = "stale"
  /\ last.user \notin DOMAIN LAST_SEARCH
  /\ Str(last.user) \notin DOMAIN DATA
  /\ DATA /= <<>>

\* the step is a forecast request or an add-favorite of u
PreconditionEvent(u) == Handled("add_fav_cb", u) \/ Handled("send_weather", u)

\* the event is answered with the prompt and no forecast is requested
PromptOnly ==
  /\ last'.resp = "need_city"
  /\ last'.h = "send_weather" => last'.asked = 0

\* C6 (as stated): with no current location, a forecast request or an
\* add-favorite changes neither DATA, the file nor the cache, requests no
\* forecast and answers with the prompt.
C6_NoMutationWithoutCurrent ==
  [][\A u \in Users :
       (PreconditionEvent(u) /\ NoCurrent(u))
       => UNCHANGED <<DATA, FILE, LAST_SEARCH>> /\ PromptOnly]_vars

\* C6 (amended): with no current location, such an event requests no
\* forecast, answers with the prompt and leaves the cache and every existing
\* record unchanged; for a user never seen it creates and flushes the
\* default record, and that is the only change.
C6_OnlyLazyCreation ==
  [][\A u \in Users :
       (PreconditionEvent(u) /\ NoCurrent(u))
       => /\ PromptOnly
          /\ UNCHANGED <<LAST_SEARCH, state>>
          /\ IF Str(u) \in DOMAIN DATA
             THEN UNCHANGED <<DATA, FILE>>
             ELSE /\ DATA' = (Str(u) :> DefaultRecord) @@ DATA
                  /\ load_data(FILE').ok
                  /\ load_data(FILE').val = DATA']_vars

C6_Witness ==
  /\ last.h = "add_fav_cb" /\ last.resp = "need_city"
  /\ fuel = MaxEvents - 1
  /\ DATA = (Str(last.user) :> DefaultRecord)
  /\ FILE = FileOf(Dump(DATA))

day_lines(text) == {i \in 1..Len(text) : text[i].kind = "day"}

warning_lines(text) == {i \in 1..Len(text) : text[i].kind = "warning"}

\* C7: the text has min(d, 16, n) day lines; the warning line is there iff
\* d > 16, names 16 days and comes before the day lines.
C7_ClampLaw ==
  fmt.stage = "done" =>
    /\ Cardinality(day_lines(fmt.text)) = Min(fmt.want, Min(ProviderMax, fmt.days))
    /\ (warning_lines(fmt.text) /= {}) <=> (fmt.want > ProviderMax)
    /\ \A w \in warning_lines(fmt.text) :
         /\ fmt.text[w].days = ProviderMax
         /\ \A d \in day_lines(fmt.text) : w < d

C7_Witness ==
  /\ fmt.stage = "done" /\ fmt.want = MonthDays /\ fmt.days = ProviderMax
  /\ Cardinality(day_lines(fmt.text)) = ProviderMax
  /\ warning_lines(fmt.text) = {2}

\* C8: a forecast request never indexes the daily series beyond the data
\* present: the icon loop runs min(min(requested, 16), n) times and the
\* event ends without IndexError.
C8_NoOutOfRange ==
  (last.h = "send_weather" /\ last.resp \in {"forecast", "index_error"})
    => /\ last.resp = "forecast"
       /\ Len(last.sent) = Min(Min(last.want, ProviderMax), last.days)

\* C9: at the end of every handler, loading users.json gives the mapping
\* DATA: every record, its current (or null) and its favorites in order.
C9_DurableEqualsMemory ==
  proc = "running" => load_data(FILE).ok /\ load_data(FILE).val = DATA

C9_Witness ==
  /\ DOMAIN DATA = {"1", "2"}
  /\ Len(DATA["1"].favorites) = 2
  /\ DATA["1"].current /= None
  /\ DATA["2"].current = None
  /\ last.h = "cmd_start"

\* C10: users.json always holds a complete snapshot, so no start ends in
\* the corrupt-store condition.
C10_AtomicReplace == load_data(FILE).ok /\ proc /= "fatal"

\* the stored current and favorites of u (None and none for a user not seen)
current_of(u) == IF Str(u) \in DOMAIN DATA THEN DATA[Str(u)].current ELSE None

favorites_of(u) == IF Str(u) \in DOMAIN DATA THEN DATA[Str(u)].favorites ELSE <<>>

\* C11: a pick whose id is in the user's search-cache mapping sets current
\* to the cached candidate with that id, reports is-favorite iff a favorite
\* has that id, and leaves the favorites as they were.
C11_PickSetsCurrent ==
  [][\A u \in Users :
       (Handled("pick_city_cb", u) /\ last'.arg \in DOMAIN cache_of(u))
       => LET c == cache_of(u)[last'.arg]
          IN /\ last'.resp = "picked"
             /\ c.id = last'.arg
             /\ DATA'[Str(u)].current =
                  [id |-> c.id, name |-> label(c), lat |-> c.lat, lon |-> c.lon]
             /\ DATA'[Str(u)].favorites = favorites_of(u)
             /\ last'.is_fav <=>
                  \E i \in 1..Len(favorites_of(u)) : favorites_of(u)[i].id = last'.arg]_vars

C11_Witness ==
  /\ last.h = "pick_city_cb" /\ last.resp = "picked" /\ last.is_fav
  /\ DATA[Str(last.user)].current.id = last.arg
  /\ \E i \in 1..Len(DATA[Str(last.user)].favorites) :
       DATA[Str(last.user)].favorites[i].id = last.arg

\* C12: a device-location report is handled as a location event, in
\* AwaitingCityName as in Idle: it sets current to the location derived
\* from the coordinates.
C12_LocationWhileAwaiting ==
  (last.h \in {"city_name_received", "got_location"} /\ "location" \in DOMAIN last.arg)
    => /\ last.h = "got_location"
       /\ current_of(last.user) =
            location_city_dict(last.arg.location.latitude, last.arg.location.longitude)

\* C13: when the geocoding or the forecast call fails, the event ends with
\* an answer to the user ("raised": the exception left the handler and
\* nothing was answered).
C13_UpstreamFailureAnswered ==
  last.h \in {"city_name_received", "send_weather"} => last.resp /= "raised"

\* C14: a search that ends as usage error, not-found or upstream failure
\* leaves DATA, users.json and every user's search-cache mapping unchanged.
C14_FailedSearchChangesNothing ==
  [][\A u \in Users :
       (Handled("city_name_received", u)
          /\ last'.resp \in {"usage", "not_found", "raised"})
       => UNCHANGED <<DATA, FILE, LAST_SEARCH>>]_vars

C14_Witness ==
  /\ last.h = "city_name_received" /\ last.resp = "not_found"
  /\ last.user \in DOMAIN LAST_SEARCH
  /\ DOMAIN LAST_SEARCH[last.user] = {"7", "46.0,7.0"}

\* C15: writes of users.json never overlap, and whenever every coroutine
\* is at an await (or has ended) the file is closed and holds the complete
\* DATA: no write has lost a mutation another handler has applied.
C15_SerializedWrites ==
  /\ Cardinality(aio.writers) <= 1
  /\ aio.running = 0
       => /\ aio.writers = {}
          /\ load_data(FILE).ok
          /\ load_data(FILE).val = DATA

C15_Witness ==
  /\ aio.running = 0 /\ Len(aio.tasks) = 2
  /\ aio.tasks[1].user /= aio.tasks[2].user
  /\ aio.tasks[1].h = "fav_del" /\ Len(aio.tasks[1].ops) = 1
  /\ aio.tasks[2].h = "got_location" /\ aio.tasks[2].ops = <<>>
  /\ DOMAIN DATA = {Str(u) : u \in Users}
  /\ FILE = FileOf(Dump(DATA))

\* C16: a forecast request of a user with a current location is answered
\* with exactly one outbound message, whatever the number of days rendered.
C16_OneSummaryMessage ==
  (last.h = "send_weather" /\ last.resp = "forecast") => Len(last.sent) = 1

\* an event of user a has been handled by this step
EventOf(a) == fuel' = fuel - 1 /\ last'.user = a

\* C17: an event of user a changes nothing of another user b (record,
\* current, favorites, search-cache mapping, conversation state), and b's
\* search-cache mapping changes only in b's own search that found candidates.
C17_UsersIndependent ==
  [][\A a, b \in Users :
       EventOf(a)
       => /\ a /= b => /\ (Str(b) \in DOMAIN DATA') <=> (Str(b) \in DOMAIN DATA)
                       /\ current_of(b)' = current_of(b)
                       /\ favorites_of(b)' = favorites_of(b)
                       /\ cache_of(b)' = cache_of(b)
                       /\ state'[b] = state[b]
          /\ (a = b /\ cache_of(b)' /= cache_of(b))
               => last'.h = "city_name_received" /\ last'.resp = "choose"]_vars

C17_Witness ==
  /\ last.h = "got_location" /\ last.user = 1
  /\ current_of(1) /= None
  /\ current_of(2) /= None /\ current_of(2).id = "7"
  /\ "7" \in DOMAIN cache_of(2)

without_id(fs, cid) == SelectSeq(fs, LAMBDA f : f.id /= cid)

C19_FavSetOnlyFromFavorites ==
  [][\A u \in Users :
       Handled("fav_set", u)
       => LET fs == favorites_of(u)
              X == last'.arg
              hit == {i \in 1..Len(fs) : fs[i].id = X}
          IN /\ favorites_of(u)' = fs
             /\ IF hit = {}
                THEN last'.resp = "not_found" /\ current_of(u)' = current_of(u)
                ELSE /\ last'.resp = "current_set"
                     /\ current_of(u)'.id = X
                     /\ \E i \in hit : current_of(u)' = fs[i]]_vars

C19_Witness ==
  /\ last.h = "fav_set" /\ last.resp = "not_found"
  /\ current_of(last.user) /= None
  /\ current_of(last.user).id = last.arg
  /\ favorites_of(last.user) = <<>>

\* the handlers registered for messages (the others are callback handlers)
MessageHandlers ==
  {"cmd_start", "cmd_help", "choose_city", "city_name_received", "favs",
   "got_location", "send_weather", "ask_location", "unhandled"}

\* C20: in waiting_city_name a message is handled by cmd_start, cmd_help,
\* choose_city or city_name_received only, and the show-favorites, weekly and
\* monthly button texts are searched for; in any other state a message
\* starts no search and leaves the search-cache mappings unchanged.
C20_DispatchOrder ==
  [][\A u \in Users :
       (EventOf(u) /\ last'.h \in MessageHandlers)
       => IF state[u] = "waiting_city_name"
          THEN /\ last'.h \in {"cmd_start", "cmd_help", "choose_city",
                               "city_name_received"}
               /\ (/\ last'.h = "city_name_received"
                   /\ HasText(last'.arg)
                   /\ last'.arg.text \in {BtnFavs, BtnWeek, BtnMonth})
                    => Len(searchLog'[u]) = Len(searchLog[u]) + 1
          ELSE /\ last'.h /= "city_name_received"
               /\ searchLog' = searchLog
               /\ LAST_SEARCH' = LAST_SEARCH]_vars

C20_Witness ==
  /\ last.h = "city_name_received"
  /\ last.arg = [text |-> BtnFavs]
  /\ Len(searchLog[last.user]) = 1

====
